---- MODULE Spec2Model ----
(***************************************************************************)
(* Epsilon-ResNet (cifar10-epsilon-resnet.py, imagenet-epsilon-resnet.py). *)
(*                                                                         *)
(* Four specifications over one set of variables:                          *)
(*   SpecBuild  Model.__init__ and Model._build_graph of both scripts,     *)
(*              one graph-building call per step;                          *)
(*   Spec       one residual block run in training and inference towers;   *)
(*   SpecMain   the __main__ sections of both scripts;                     *)
(*   SpecNet    the whole CIFAR network run block by block, with its       *)
(*              discarded_cnt / discarded_ratio summaries.                 *)
(*                                                                         *)
(* Conventions.                                                            *)
(*  - Real numbers are held in tenths: 25 stands for 2.5.                  *)
(*  - A tensor is abstracted to its shape [c, h] (channels, spatial size)  *)
(*    at build time and to the value of one tracked element at run time.   *)
(*  - The ImageNet script defines residual() (lines 80-110) but its block  *)
(*    functions basicblock and bottleneck (lines 64-68) call               *)
(*    residual_convs directly, so residual() is never run: an ImageNet     *)
(*    block creates no gate and adds no shortcut.  The model follows the   *)
(*    code.                                                                *)
(*  - The two places where imagenet-epsilon-resnet.py writes `&&` (lines   *)
(*    129, 135) are read as `and`, and the `if` of line 129 as ending in   *)
(*    a colon.                                                             *)
(*  - `/` on two ints is floor division under Python 2 and true division   *)
(*    under Python 3; both interpreters are modelled (field py).           *)
(***************************************************************************)
EXTENDS Integers, Sequences, FiniteSets, TLC

VARIABLES
    \* ---- SpecBuild: building one tower's graph
    bcfg,       \* the configuration the model object is built for
    bpc,        \* position of the builder
    shape,      \* static shape [c, h] of the tensor l being threaded through
    nextBlock,  \* index (1-based) of the next residual block to build
    gateVars,   \* names of the 'identity' variables created so far, in order
    sideHeads,  \* names of the blocks a side_output head was attached to
    ops,        \* the graph ops built so far before the residual stages
    \* ---- Spec: one residual block at run time
    blk,        \* descriptor of the block
    identity_w, \* the block's persistent gate variable
    assigned,   \* the value most recently assigned by a training step (1 at start)
    last,       \* what the most recent run of the block did
    \* ---- SpecMain: the scripts' __main__
    args,       \* parsed command line
    mpc,        \* position in __main__
    EPSILON,    \* module global EPSILON
    model,      \* the Model object handed to the trainer / predictor
    env,        \* observable effects: log dir, training, evaluation, checkpoints
    \* ---- SpecNet: one run after another of the whole CIFAR network
    ncfg,       \* the network: n units per stage, threshold eps
    gates,      \* the 3n persistent identity_w variables, in build order
    npc,        \* "ready", the tower being run ("train" / "infer"), or "done"
    npos,       \* index of the next block the run executes
    preds,      \* the is_discarded values this run has produced so far
    summary     \* discarded_cnt, all_cnt and discarded_ratio of the finished run

buildVars == <<bcfg, bpc, shape, nextBlock, gateVars, sideHeads, ops>>
runVars   == <<blk, identity_w, assigned, last>>
mainVars  == <<args, mpc, EPSILON, model, env>>
netVars   == <<ncfg, gates, npc, npos, preds, summary>>
vars      == <<bcfg, bpc, shape, nextBlock, gateVars, sideHeads, ops,
               blk, identity_w, assigned, last,
               args, mpc, EPSILON, model, env,
               ncfg, gates, npc, npos, preds, summary>>

--------------------------------------------------------------------------
(* Bounds *)

\* largest -n / --num_units explored for the CIFAR network
MaxUnits == 3

--------------------------------------------------------------------------
(* Program constants *)

\* cifar10-epsilon-resnet.py:42  EPSILON = 2.5   (tenths)
CIFAR_EPSILON == 25
\* imagenet-epsilon-resnet.py:25  EPSILON = 2.0  (tenths)
IMAGENET_EPSILON == 20
\* imagenet-epsilon-resnet.py:22  INPUT_SHAPE = 224
INPUT_SHAPE == 224
\* cifar10-epsilon-resnet.py:51  InputDesc(tf.float32, [None, 32, 32, 3], 'input')
CIFAR_INPUT == 32

\* imagenet-epsilon-resnet.py:295  choices=[18, 34, 50, 101,152]
Depths == {18, 34, 50, 101, 152}

Pythons == {2, 3}
Formats == {"NCHW", "NHWC"}

RECURSIVE SumSeq(_)
SumSeq(s) == IF s = <<>> THEN 0 ELSE Head(s) + SumSeq(Tail(s))

\* Python's sum(defs[:k])
SumPrefix(s, k) == SumSeq(SubSeq(s, 1, k))

\* imagenet-epsilon-resnet.py:112-118  cfg = {...}
cfg(depth) ==
    CASE depth = 18  -> [defs |-> <<2, 2, 2, 2>>,  block_func |-> "basicblock"]
      [] depth = 34  -> [defs |-> <<3, 4, 6, 3>>,  block_func |-> "basicblock"]
      [] depth = 50  -> [defs |-> <<3, 4, 6, 3>>,  block_func |-> "bottleneck"]
      [] depth = 101 -> [defs |-> <<3, 4, 23, 3>>, block_func |-> "bottleneck"]
      [] depth = 152 -> [defs |-> <<3, 8, 36, 3>>, block_func |-> "bottleneck"]

--------------------------------------------------------------------------
(* The residual blocks each builder asks for, in build order *)

\* cifar10-epsilon-resnet.py:114-127: res1.0 (first), res1.1..res1.(n-1),
\* res2.0 (increase_dim), res2.1.., res3.0 (increase_dim), res3.1..
\* range(1, n) is empty for n = 1, so each stage still has its block 0.
CifarBlock(n, j) ==
    LET stage == ((j - 1) \div n) + 1
        k     == (j - 1) % n
    IN  [script       |-> "cifar",
         scope        |-> <<"res", stage, k>>,
         stage        |-> stage,
         idx          |-> k,
         increase_dim |-> (stage > 1 /\ k = 0),
         first        |-> (stage = 1 /\ k = 0)]

CifarBlocks(n) == [j \in 1..(3 * n) |-> CifarBlock(n, j)]

\* group (0..3) holding the j-th block of an ImageNet network
GroupOf(defs, j) ==
    CHOOSE g \in 0..3 : SumPrefix(defs, g) < j /\ j <= SumPrefix(defs, g + 1)

\* imagenet-epsilon-resnet.py:123-138 (layer) and 147-150 (the four groups):
\* block0 of a group has the group's stride and preact 'no_preact' (group0)
\* or 'both_preact'; blocks 1..count-1 have stride 1 and preact 'default'.
ImagenetBlock(depth, j) ==
    LET defs == cfg(depth).defs
        g    == GroupOf(defs, j)
        i    == j - SumPrefix(defs, g) - 1
    IN  [script     |-> "imagenet",
         scope      |-> <<"group", g, i>>,
         stage      |-> g,
         idx        |-> i,
         features   |-> CASE g = 0 -> 64 [] g = 1 -> 128 [] g = 2 -> 256 [] g = 3 -> 512,
         stride     |-> IF i = 0 THEN (IF g = 0 THEN 1 ELSE 2) ELSE 1,
         preact     |-> IF i = 0 THEN (IF g = 0 THEN "no_preact" ELSE "both_preact")
                        ELSE "default",
         block_func |-> cfg(depth).block_func]

ImagenetBlocks(depth) ==
    [j \in 1..SumSeq(cfg(depth).defs) |-> ImagenetBlock(depth, j)]

Blocks(c) == IF c.script = "cifar" THEN CifarBlocks(c.n) ELSE ImagenetBlocks(c.depth)

\* the name tf.get_variable('identity', ...) gets inside the block's scope
GateName(b) == <<b.scope, "identity">>

--------------------------------------------------------------------------
(* SpecBuild: Model.__init__ and Model._build_graph, one call per step *)

BuildConfigs ==
    [script : {"cifar"}, n : 1..MaxUnits, depth : {0}, py : Pythons,
     gpu : BOOLEAN, data_format : {"NCHW"}]
    \cup
    [script : {"imagenet"}, n : {0}, depth : Depths, py : Pythons,
     gpu : BOOLEAN, data_format : Formats]

\* Twice the value of Python's a / 2 on an int a: floor division under
\* Python 2, true division under Python 3.
TwiceHalf(a, py) == IF py = 2 THEN 2 * (a \div 2) ELSE a

\* imagenet-epsilon-resnet.py:121
\*   SIDE_POSITION = sum(defs)/2 - sum(defs[:2]) - 1      (twice its value)
TwiceSidePosition(depth, py) ==
    LET defs == cfg(depth).defs
    IN  TwiceHalf(SumSeq(defs), py) - 2 * SumPrefix(defs, 2) - 2

\* cifar10-epsilon-resnet.py:120-123: inside `for k in range(1, self.n)` of
\* stage 2, `if(k == self.n/2)`.  res2.0 is built before the loop (line 119).
CifarSideHere(c, b) ==
    /\ b.stage = 2
    /\ b.idx >= 1
    /\ 2 * b.idx = TwiceHalf(c.n, c.py)

\* imagenet-epsilon-resnet.py:129 (block0) and 135 (blocks 1..count-1)
ImagenetSideHere(c, b) ==
    /\ b.stage = 2
    /\ IF b.idx = 0
       THEN TwiceSidePosition(c.depth, c.py) = 0
       ELSE 2 * b.idx = TwiceSidePosition(c.depth, c.py)

SideHere(c, b) ==
    IF c.script = "cifar" THEN CifarSideHere(c, b) ELSE ImagenetSideHere(c, b)

\* cifar10-epsilon-resnet.py:72-83: shapes of short_cut and of the residual
\* branch of residual(); in_channel = shape[1]
CifarShortcutShape(b, s) ==
    IF b.increase_dim
    THEN [c |-> s.c + 2 * (s.c \div 2), h |-> s.h \div 2]
    ELSE s

CifarResidualShape(b, s) ==
    IF b.increase_dim
    THEN [c |-> s.c * 2, h |-> s.h \div 2]
    ELSE [c |-> s.c, h |-> s.h]

\* imagenet-epsilon-resnet.py:70-78 residual_convs
ImagenetConvsShape(b, s) ==
    [c |-> IF b.block_func = "basicblock" THEN b.features ELSE b.features * 4,
     h |-> s.h \div b.stride]

\* Does building this block create an 'identity' gate variable?
\* cifar: residual(), lines 87-88.  imagenet: basicblock / bottleneck
\* (lines 64-68) return residual_convs(...) and never reach lines 91-92.
CifarCreatesGate(b) == TRUE
ImagenetCreatesGate(b) == FALSE
CreatesGate(b) ==
    IF b.script = "cifar" THEN CifarCreatesGate(b) ELSE ImagenetCreatesGate(b)

InitBuild ==
    /\ bcfg \in BuildConfigs
    /\ bpc = "init"
    /\ shape = [c |-> 0, h |-> 0]
    /\ nextBlock = 1
    /\ gateVars = <<>>
    /\ sideHeads = <<>>
    /\ ops = <<>>

\* mutant of ImagenetInitAsserts: __init__ without the GPU assertion
ImagenetInitAssertsNever(data_format) == FALSE

\* imagenet-epsilon-resnet.py:29  if data_format == 'NCHW':
ImagenetInitAsserts(data_format) == data_format = "NCHW"

\* imagenet-epsilon-resnet.py:28-31 / cifar10-epsilon-resnet.py:46-48
ModelInit ==
    /\ bpc = "init"
    /\ IF bcfg.script = "imagenet" /\ ImagenetInitAsserts(bcfg.data_format) /\ ~bcfg.gpu
       THEN bpc' = "failed"
       ELSE bpc' = "input"
    /\ UNCHANGED <<bcfg, shape, nextBlock, gateVars, sideHeads, ops>>

\* cifar10-epsilon-resnet.py:55-56 (image / 128.0)
\* imagenet-epsilon-resnet.py:41-48 (cast, mean / std normalisation)
BuildInput ==
    /\ bpc = "input"
    /\ ops' = Append(ops, "scale")
    /\ shape' = IF bcfg.script = "cifar"
                THEN [c |-> 3, h |-> CIFAR_INPUT]
                ELSE [c |-> 3, h |-> INPUT_SHAPE]
    /\ bpc' = IF bcfg.script = "cifar" THEN "assert" ELSE "transpose"
    /\ UNCHANGED <<bcfg, nextBlock, gateVars, sideHeads>>

\* cifar10-epsilon-resnet.py:57  assert tf.test.is_gpu_available()
AssertGpu ==
    /\ bpc = "assert"
    /\ bpc' = IF bcfg.gpu THEN "transpose" ELSE "failed"
    /\ UNCHANGED <<bcfg, shape, nextBlock, gateVars, sideHeads, ops>>

\* cifar10-epsilon-resnet.py:58 (always); imagenet-epsilon-resnet.py:49-50
Transpose ==
    /\ bpc = "transpose"
    /\ ops' = IF bcfg.script = "cifar" \/ bcfg.data_format = "NCHW"
              THEN Append(ops, "transpose") ELSE ops
    /\ bpc' = "conv0"
    /\ UNCHANGED <<bcfg, shape, nextBlock, gateVars, sideHeads>>

\* cifar10-epsilon-resnet.py:110-113; imagenet-epsilon-resnet.py:141-146
Conv0 ==
    /\ bpc = "conv0"
    /\ ops' = Append(ops, "conv0")
    /\ shape' = IF bcfg.script = "cifar"
                THEN [c |-> 16, h |-> shape.h]
                ELSE [c |-> 64, h |-> (shape.h \div 2) \div 2]
    /\ bpc' = "blocks"
    /\ UNCHANGED <<bcfg, nextBlock, gateVars, sideHeads>>

\* One residual(...) call of cifar10-epsilon-resnet.py:114-127 with the side
\* head of lines 122-123, or one block_func(...) call of
\* imagenet-epsilon-resnet.py:123-138 with the side head of lines 129-137.
BuildBlock ==
    /\ bpc = "blocks"
    /\ nextBlock <= Len(Blocks(bcfg))
    /\ LET b == Blocks(bcfg)[nextBlock]
           out == IF bcfg.script = "cifar"
                  THEN CifarResidualShape(b, shape)
                  ELSE ImagenetConvsShape(b, shape)
           addOk == bcfg.script = "cifar" =>
                       CifarShortcutShape(b, shape) = CifarResidualShape(b, shape)
       IN  /\ gateVars' = IF CreatesGate(b)
                          THEN Append(gateVars, GateName(b)) ELSE gateVars
           /\ IF addOk
              THEN /\ shape' = out
                   /\ sideHeads' = IF SideHere(bcfg, b)
                                   THEN Append(sideHeads, b.scope) ELSE sideHeads
                   /\ nextBlock' = nextBlock + 1
                   /\ bpc' = "blocks"
              ELSE /\ bpc' = "failed"
                   /\ UNCHANGED <<shape, sideHeads, nextBlock>>
    /\ UNCHANGED <<bcfg, ops>>

\* cifar10-epsilon-resnet.py:128-132; imagenet-epsilon-resnet.py:151-153
FinishLayers ==
    /\ bpc = "blocks"
    /\ nextBlock > Len(Blocks(bcfg))
    /\ bpc' = "built"
    /\ UNCHANGED <<bcfg, shape, nextBlock, gateVars, sideHeads, ops>>

--------------------------------------------------------------------------
(* Spec: one block of a built network, run by training and inference towers *)

\* values (tenths) of the tracked element of a block's input
Acts == {-10, 0, 30}
\* values (tenths) the residual branch residual_convs(l) can produce; the
\* convolution weights are free, so any of them can follow any input
ResVals == {-40, 0, 22, 40}
\* -e / --epsilon strings tried on the command line
EpsilonArgs == {"1.0", "3.0"}

\* Python's float() on the strings of EpsilonArgs, in tenths
ParseFloat(str) == CASE str = "1.0" -> 10 [] str = "3.0" -> 30

Abs(v) == IF v < 0 THEN -v ELSE v

\* EpsilonResNetBase.strict_identity(l, EPSILON): 0 when the sparsity
\* criterion holds (every response of the residual branch is below EPSILON
\* in magnitude), 1 otherwise.
strict_identity(f, eps) == IF Abs(f) < eps THEN 0 ELSE 1

\* cifar10-epsilon-resnet.py:87-88  initializer=tf.constant(1.0)
InitGate == 1

\* cifar10-epsilon-resnet.py:78  AvgPooling('pool', l, 2) on the window
\* holding the tracked element l and a neighbour x
AvgPool(l, x) == (l + x) \div 2

\* cifar10-epsilon-resnet.py:75-83  short_cut (the zero padding of line 79
\* adds channels and leaves the tracked element as it is)
CifarShortCut(b, l, x) == IF b.increase_dim THEN AvgPool(l, x) ELSE l

\* imagenet-epsilon-resnet.py:58-62  shortcut(): a 1x1 convolution (free
\* weights, value x) when the channel counts differ, else the input
ImagenetShortCut(b, l, x) ==
    IF b.idx = 0 \/ b.block_func = "basicblock" THEN x ELSE l

\* mutant of TrainGate: assign_add in place of assign
TrainGateAccumulates(old, w) == old + w

\* cifar10-epsilon-resnet.py:94  identity_w = identity_w.assign(w)
TrainGate(old, w) == w

\* cifar10-epsilon-resnet.py:96  l = identity_w * l + short_cut
TrainOutput(w, f, sc) == w * f + sc

\* cifar10-epsilon-resnet.py:99-100
\*   tf.where(tf.equal(identity_w, 0.0), short_cut, residual_convs(...) + short_cut)
InferOutput(g, f, sc) == IF g = 0 THEN sc ELSE f + sc

\* mutant of InferGate: the inference tower re-initialises the variable
InferGateResets(g) == InitGate

\* the inference branch (lines 97-100) holds no assign: the variable keeps
\* its value
InferGate(g) == g

\* imagenet-epsilon-resnet.py:64-68  basicblock / bottleneck return
\* residual_convs(l, ...): the block's output is the convolutions' output
ImagenetBlockOutput(f, sc) == f

\* the thresholds __main__ can leave in EPSILON (see ParseArgs below)
Thresholds(script) ==
    IF script = "cifar"
    THEN {CIFAR_EPSILON} \cup {ParseFloat(e) : e \in EpsilonArgs}
    ELSE {IMAGENET_EPSILON}

RunBlocks ==
    UNION {{[b |-> CifarBlocks(n)[j], eps |-> e] :
                j \in 1..(3 * n), e \in Thresholds("cifar")} : n \in 1..MaxUnits}
    \cup
    UNION {{[b |-> ImagenetBlocks(d)[j], eps |-> e] :
                j \in 1..SumSeq(cfg(d).defs), e \in Thresholds("imagenet")} :
           d \in Depths}

NoRun == [mode |-> "none", l |-> 0, sc |-> 0, f |-> 0, out |-> 0, g |-> 0]

HasGate == identity_w # <<>>

InitRun ==
    /\ blk \in RunBlocks
    /\ identity_w = IF CreatesGate(blk.b) THEN <<InitGate>> ELSE <<>>
    /\ assigned = InitGate
    /\ last = NoRun

\* One run of the block in a training tower.
\* cifar10-epsilon-resnet.py:90-96  (ctx.is_training)
\* imagenet-epsilon-resnet.py:64-68, 126-133  (block_func)
TrainStep ==
    \E l \in Acts, x \in Acts, f \in ResVals :
        IF blk.b.script = "cifar"
        THEN LET sc == CifarShortCut(blk.b, l, x)
                 w  == strict_identity(f, blk.eps)
                 g  == TrainGate(identity_w[1], w)
             IN  /\ identity_w' = <<g>>
                 /\ assigned' = w
                 /\ last' = [mode |-> "train", l |-> l, sc |-> sc, f |-> f,
                             out |-> TrainOutput(g, f, sc), g |-> g]
                 /\ UNCHANGED blk
        ELSE LET sc == ImagenetShortCut(blk.b, l, x)
             IN  /\ last' = [mode |-> "train", l |-> l, sc |-> sc, f |-> f,
                             out |-> ImagenetBlockOutput(f, sc), g |-> 0]
                 /\ UNCHANGED <<blk, identity_w, assigned>>

\* One run of the block in a non-training tower.
\* cifar10-epsilon-resnet.py:97-100
\* imagenet-epsilon-resnet.py:64-68, 126-133  (block_func)
InferStep ==
    \E l \in Acts, x \in Acts, f \in ResVals :
        IF blk.b.script = "cifar"
        THEN LET sc == CifarShortCut(blk.b, l, x)
                 g  == identity_w[1]
             IN  /\ identity_w' = <<InferGate(g)>>
                 /\ last' = [mode |-> "infer", l |-> l, sc |-> sc, f |-> f,
                             out |-> InferOutput(g, f, sc), g |-> g]
                 /\ UNCHANGED <<blk, assigned>>
        ELSE LET sc == ImagenetShortCut(blk.b, l, x)
             IN  /\ last' = [mode |-> "infer", l |-> l, sc |-> sc, f |-> f,
                             out |-> ImagenetBlockOutput(f, sc), g |-> 0]
                 /\ UNCHANGED <<blk, identity_w, assigned>>

--------------------------------------------------------------------------
(* SpecMain: the __main__ sections *)

\* the Model object: made by Model(...), built when a trainer or predictor
\* calls _build_graph; epsilon is the value of the global EPSILON that
\* _build_graph read (cifar lines 63, 92; imagenet lines 56, 97)
\* side_heads: the side heads _build_graph attached, by name
NoModel == [made |-> FALSE, data_format |-> "", built |-> FALSE, epsilon |-> 0,
            side_heads |-> <<>>]

\* monitored: the side heads the InferenceRunner callback of get_config
\* reads its incorrect_vector from, by name
NoEffects == [logdir |-> FALSE, training |-> FALSE, evaluated |-> FALSE,
              ckpt |-> FALSE, error |-> "none", monitored |-> <<>>]

MainConfigs ==
    [script : {"cifar"}, n : 1..MaxUnits, depth : {0},
     epsilon : {<<>>} \cup {<<e>> : e \in EpsilonArgs},
     eval : {FALSE}, data_format : {"NCHW"}, gpu_ok : BOOLEAN, py : Pythons]
    \cup
    [script : {"imagenet"}, n : {0}, depth : Depths,
     epsilon : {<<>>} \cup {<<e>> : e \in EpsilonArgs},
     eval : BOOLEAN, data_format : Formats, gpu_ok : BOOLEAN, py : Pythons]

\* cifar10-epsilon-resnet.py:42 / imagenet-epsilon-resnet.py:25
DefaultEpsilon(script) == IF script = "cifar" THEN CIFAR_EPSILON ELSE IMAGENET_EPSILON

\* The global EPSILON after the argument handling.
\* cifar10-epsilon-resnet.py:227-228
\*     if args.epsilon: EPSILON = float(args.epsilon)
\* imagenet-epsilon-resnet.py:298-303: args.epsilon is parsed and never read
CifarEpsilonAfterArgs(a, cur) ==
    IF a.epsilon # <<>> /\ a.epsilon[1] # "" THEN ParseFloat(a.epsilon[1]) ELSE cur
ImagenetEpsilonAfterArgs(a, cur) == cur
EpsilonAfterArgs(a, cur) ==
    IF a.script = "cifar" THEN CifarEpsilonAfterArgs(a, cur)
    ELSE ImagenetEpsilonAfterArgs(a, cur)

\* imagenet-epsilon-resnet.py:271  model=Model()  with the default of line 28
EvalDataFormat(a) == "NCHW"
\* imagenet-epsilon-resnet.py:249, 317  Model(data_format=data_format)
TrainDataFormat(a) == a.data_format

\* '{}'.format(v) of a block index: the kind of the value and twice the value
\* ("1" and "1.0" are different names)
FormatInt(k) == <<"int", 2 * k>>
\* '{}'.format(a/2): an int under Python 2, a float under Python 3
FormatHalf(a, py) == IF py = 2 THEN <<"int", TwiceHalf(a, 2)>> ELSE <<"float", a>>
\* '{}'.format(None)
FormatNone == <<"None", 0>>

\* the name a side head gets from the block it is attached to:
\* cifar10-epsilon-resnet.py:123       side_output('res2.{}'.format(k), ...)
\* imagenet-epsilon-resnet.py:130, 137 side_output('block{}'.format(i), ...)
\*                                     inside variable_scope('group2')
HeadName(b) == <<b.scope[1], b.stage, FormatInt(b.idx)>>

\* the side heads _build_graph attaches for a configuration, in build order
AttachedHeads(c) ==
    LET Here(b) == SideHere(c, b)
        sel == SelectSeq(Blocks(c), Here)
    IN  [i \in 1..Len(sel) |-> HeadName(sel[i])]

\* cifar10-epsilon-resnet.py:191
\*   side_name = "side_output/res2.{}".format(NUM_UNITS/2)
CifarSideName(a) == <<"res", 2, FormatHalf(a.n, a.py)>>

\* imagenet-epsilon-resnet.py:247
\*   side_name = 'group2/side_output/block{}'.format(SIDE_POSITION)
\* reads the module global SIDE_POSITION = None of line 24: line 121 assigns
\* a local of _build_graph, and get_config runs before the graph is built
ImagenetSideName(a) == <<"group", 2, FormatNone>>

SideName(a) == IF a.script = "cifar" THEN CifarSideName(a) ELSE ImagenetSideName(a)

\* mutant of AfterEval: no sys.exit(), the script falls through to training
AfterEvalFallsThrough == "logdir"

\* imagenet-epsilon-resnet.py:308  sys.exit()
AfterEval == "exit"

InitMain ==
    /\ args \in MainConfigs
    /\ mpc = "start"
    /\ EPSILON = DefaultEpsilon(args.script)
    /\ model = NoModel
    /\ env = NoEffects

\* cifar10-epsilon-resnet.py:223-232; imagenet-epsilon-resnet.py:300-305
ParseArgs ==
    /\ mpc = "start"
    /\ EPSILON' = EpsilonAfterArgs(args, EPSILON)
    /\ mpc' = IF args.script = "imagenet" /\ args.eval THEN "eval"
              ELSE IF args.script = "imagenet" THEN "logdir" ELSE "config"
    /\ UNCHANGED <<args, model, env>>

\* imagenet-epsilon-resnet.py:305-308 with eval_on_ILSVRC12 (268-283):
\* Model() asserts a GPU (NCHW), the predictor builds the graph and runs the
\* validation set, then sys.exit()
EvalOnly ==
    /\ mpc = "eval"
    /\ LET fmt == EvalDataFormat(args)
       IN  IF ImagenetInitAsserts(fmt) /\ ~args.gpu_ok
           THEN /\ env' = [env EXCEPT !.error = "assert"]
                /\ mpc' = "crashed"
                /\ UNCHANGED model
           ELSE /\ model' = [made |-> TRUE, data_format |-> fmt,
                             built |-> TRUE, epsilon |-> EPSILON,
                             side_heads |-> AttachedHeads(args)]
                /\ env' = [env EXCEPT !.evaluated = TRUE]
                /\ mpc' = AfterEval
    /\ UNCHANGED <<args, EPSILON>>

\* imagenet-epsilon-resnet.py:313-316  logger.auto_set_dir(...)
SetLogDir ==
    /\ mpc = "logdir"
    /\ env' = [env EXCEPT !.logdir = TRUE]
    /\ mpc' = "config"
    /\ UNCHANGED <<args, EPSILON, model>>

\* cifar10-epsilon-resnet.py:185-208, 233 (auto_set_dir, Model(n=NUM_UNITS))
\* imagenet-epsilon-resnet.py:243-265, 317 (Model(data_format=...), which
\* asserts a GPU for NCHW)
GetConfig ==
    /\ mpc = "config"
    /\ IF args.script = "cifar"
       THEN /\ env' = [env EXCEPT !.logdir = TRUE,
                                   !.monitored = <<SideName(args)>>]
            /\ model' = [model EXCEPT !.made = TRUE, !.data_format = "NCHW"]
            /\ mpc' = "train"
       ELSE LET fmt == TrainDataFormat(args)
            IN  IF ImagenetInitAsserts(fmt) /\ ~args.gpu_ok
                THEN /\ env' = [env EXCEPT !.error = "assert"]
                     /\ mpc' = "crashed"
                     /\ UNCHANGED model
                ELSE /\ model' = [model EXCEPT !.made = TRUE, !.data_format = fmt]
                     /\ mpc' = "train"
                     /\ env' = [env EXCEPT !.monitored = <<SideName(args)>>]
    /\ UNCHANGED <<args, EPSILON>>

\* cifar10-epsilon-resnet.py:238 / imagenet-epsilon-resnet.py:321
\* SyncMultiGPUTrainer(config).train(): the trainer calls _build_graph (the
\* CIFAR graph asserts a GPU at line 57) and starts the training loop
Train ==
    /\ mpc = "train"
    /\ IF args.script = "cifar" /\ ~args.gpu_ok
       THEN /\ env' = [env EXCEPT !.error = "assert"]
            /\ mpc' = "crashed"
            /\ UNCHANGED model
       ELSE /\ model' = [model EXCEPT !.built = TRUE, !.epsilon = EPSILON,
                                       !.side_heads = AttachedHeads(args)]
            /\ env' = [env EXCEPT !.training = TRUE]
            /\ mpc' = "training"
    /\ UNCHANGED <<args, EPSILON>>

\* cifar10-epsilon-resnet.py:195 / imagenet-epsilon-resnet.py:252
\* the ModelSaver callback writes a checkpoint after an epoch
SaveCheckpoint ==
    /\ mpc = "training"
    /\ env' = [env EXCEPT !.ckpt = TRUE]
    /\ UNCHANGED <<args, mpc, EPSILON, model>>

--------------------------------------------------------------------------
(* SpecNet: the CIFAR network of 3n gated blocks, run block by block *)

\* mutant of IsDiscarded: the two branches of tf.where swapped
IsDiscardedSwapped(g) == IF g = 0 THEN 0 ELSE 1

\* cifar10-epsilon-resnet.py:102-103
\*   is_discarded = tf.where(tf.equal(identity_w,0.0), 1.0, 0.0, 'is_discarded')
IsDiscarded(g) == IF g = 0 THEN 1 ELSE 0

\* cifar10-epsilon-resnet.py:60  all_cnt = tf.constant(self.n * 3+2, ...)
AllCnt(n) == n * 3 + 2

\* cifar10-epsilon-resnet.py:139  discarded_cnt = tf.add_n(preds)
DiscardedCnt(p) == SumSeq(p)

\* cifar10-epsilon-resnet.py:140-141  tf.divide(discarded_cnt, all_cnt),
\* kept as the fraction <<numerator, denominator>>
DiscardedRatio(cnt, all) == <<cnt, all>>

NoSummary == [mode |-> "none", discarded_cnt |-> 0, all_cnt |-> 0,
              discarded_ratio |-> <<0, 1>>]

NetConfigs == [n : 1..MaxUnits, eps : Thresholds("cifar")]

InitNet ==
    /\ ncfg \in NetConfigs
    /\ gates = [j \in 1..(3 * ncfg.n) |-> InitGate]
    /\ npc = "ready"
    /\ npos = 1
    /\ preds = <<>>
    /\ summary = NoSummary

\* a tower's graph is run: cifar10-epsilon-resnet.py:89-90
\*   ctx = get_current_tower_context(); if ctx.is_training
NetStart ==
    /\ npc \in {"ready", "done"}
    /\ npc' \in {"train", "infer"}
    /\ npos' = 1
    /\ preds' = <<>>
    /\ summary' = NoSummary
    /\ UNCHANGED <<ncfg, gates>>

\* the run executes its next residual block, cifar10-epsilon-resnet.py:85-105:
\* the training tower assigns the gate (lines 91-96), the inference tower
\* reads it (lines 98-100); both append is_discarded to preds (102-105)
NetBlock ==
    /\ npc \in {"train", "infer"}
    /\ npos <= Len(gates)
    /\ \E f \in ResVals :
          LET g == IF npc = "train"
                   THEN TrainGate(gates[npos], strict_identity(f, ncfg.eps))
                   ELSE InferGate(gates[npos])
          IN  /\ gates' = [gates EXCEPT ![npos] = g]
              /\ preds' = Append(preds, IsDiscarded(g))
    /\ npos' = npos + 1
    /\ UNCHANGED <<ncfg, npc, summary>>

\* cifar10-epsilon-resnet.py:139-142, with all_cnt of line 60
NetSummary ==
    /\ npc \in {"train", "infer"}
    /\ npos > Len(gates)
    /\ summary' = [mode |-> npc,
                   discarded_cnt |-> DiscardedCnt(preds),
                   all_cnt |-> AllCnt(ncfg.n),
                   discarded_ratio |->
                       DiscardedRatio(DiscardedCnt(preds), AllCnt(ncfg.n))]
    /\ npc' = "done"
    /\ UNCHANGED <<ncfg, gates, npos, preds>>

--------------------------------------------------------------------------
(* The specifications.  Each holds the other groups of variables at a      *)
(* fixed value.                                                            *)

IdleBuild ==
    /\ bcfg = [script |-> "none"]
    /\ bpc = "idle"
    /\ shape = [c |-> 0, h |-> 0]
    /\ nextBlock = 0
    /\ gateVars = <<>>
    /\ sideHeads = <<>>
    /\ ops = <<>>

IdleRun ==
    /\ blk = [b |-> [script |-> "none"], eps |-> 0]
    /\ identity_w = <<>>
    /\ assigned = 0
    /\ last = NoRun

IdleMain ==
    /\ args = [script |-> "none"]
    /\ mpc = "idle"
    /\ EPSILON = 0
    /\ model = NoModel
    /\ env = NoEffects

IdleNet ==
    /\ ncfg = [n |-> 0, eps |-> 0]
    /\ gates = <<>>
    /\ npc = "idle"
    /\ npos = 0
    /\ preds = <<>>
    /\ summary = NoSummary

Init == InitRun /\ IdleBuild /\ IdleMain /\ IdleNet
Next ==
    \/ TrainStep /\ UNCHANGED <<buildVars, mainVars, netVars>>
    \/ InferStep /\ UNCHANGED <<buildVars, mainVars, netVars>>
Spec == Init /\ [][Next]_vars

BuildInit == InitBuild /\ IdleRun /\ IdleMain /\ IdleNet
BuildNext ==
    \/ ModelInit /\ UNCHANGED <<runVars, mainVars, netVars>>
    \/ BuildInput /\ UNCHANGED <<runVars, mainVars, netVars>>
    \/ AssertGpu /\ UNCHANGED <<runVars, mainVars, netVars>>
    \/ Transpose /\ UNCHANGED <<runVars, mainVars, netVars>>
    \/ Conv0 /\ UNCHANGED <<runVars, mainVars, netVars>>
    \/ BuildBlock /\ UNCHANGED <<runVars, mainVars, netVars>>
    \/ FinishLayers /\ UNCHANGED <<runVars, mainVars, netVars>>
SpecBuild == BuildInit /\ [][BuildNext]_vars

MainInit == InitMain /\ IdleBuild /\ IdleRun /\ IdleNet
MainNext ==
    \/ ParseArgs /\ UNCHANGED <<buildVars, runVars, netVars>>
    \/ EvalOnly /\ UNCHANGED <<buildVars, runVars, netVars>>
    \/ SetLogDir /\ UNCHANGED <<buildVars, runVars, netVars>>
    \/ GetConfig /\ UNCHANGED <<buildVars, runVars, netVars>>
    \/ Train /\ UNCHANGED <<buildVars, runVars, netVars>>
    \/ SaveCheckpoint /\ UNCHANGED <<buildVars, runVars, netVars>>
SpecMain == MainInit /\ [][MainNext]_vars

NetInit == InitNet /\ IdleBuild /\ IdleRun /\ IdleMain
NetNext ==
    \/ NetStart /\ UNCHANGED <<buildVars, runVars, mainVars>>
    \/ NetBlock /\ UNCHANGED <<buildVars, runVars, mainVars>>
    \/ NetSummary /\ UNCHANGED <<buildVars, runVars, mainVars>>
SpecNet == NetInit /\ [][NetNext]_vars

--------------------------------------------------------------------------
(* Properties of one block at run time (Spec) *)

Gate == identity_w[1]

\* C1: at inference, a block whose stored gate is 0 outputs the shortcut of
\* its input alone; every other block outputs shortcut + F(input).
\* Violated: an ImageNet block outputs F(input) alone (see C5).
C1_InferenceSelectsByGate ==
    last.mode = "infer" =>
        IF HasGate /\ Gate = 0
        THEN last.out = last.sc
        ELSE last.out = last.sc + last.f

\* C1 restricted to the blocks built by residual() (the CIFAR network)
CifarInferenceSelectsByGate ==
    (blk.b.script = "cifar" /\ last.mode = "infer") =>
        /\ HasGate
        /\ IF Gate = 0 THEN last.out = last.sc ELSE last.out = last.sc + last.f

\* C2: a training step sets the block's gate from that step's threshold
\* comparison: criterion satisfied -> gate 0 and output = shortcut alone;
\* otherwise gate 1 and output = shortcut + F(input).
\* Violated: an ImageNet block has no gate and outputs F(input) (see C5).
C2_TrainingSetsGate ==
    last.mode = "train" =>
        /\ HasGate
        /\ IF Abs(last.f) < blk.eps
           THEN Gate = 0 /\ last.out = last.sc
           ELSE Gate = 1 /\ last.out = last.sc + last.f

\* C2 restricted to the blocks built by residual() (the CIFAR network)
CifarTrainingSetsGate ==
    (blk.b.script = "cifar" /\ last.mode = "train") =>
        /\ HasGate
        /\ IF Abs(last.f) < blk.eps
           THEN Gate = 0 /\ last.out = last.sc
           ELSE Gate = 1 /\ last.out = last.sc + last.f

C4_GatePersists ==
    HasGate => /\ Gate = assigned
               /\ (last.mode = "infer" => last.g = assigned)

\* C4 witness: an inference run read a gate that training had set to 0
C4_Witness == HasGate /\ last.mode = "infer" /\ assigned = 0 /\ last.g = 0

--------------------------------------------------------------------------
(* Properties of the built graph (SpecBuild) *)

\* the block counts C5 states
ClaimedBlocks(c) ==
    IF c.script = "cifar" THEN 3 * c.n
    ELSE CASE c.depth = 18 -> 8 [] c.depth = 34 -> 16 [] c.depth = 50 -> 16
           [] c.depth = 101 -> 33 [] c.depth = 152 -> 50

NoDuplicates(s) == \A i, j \in 1..Len(s) : s[i] = s[j] => i = j

\* C5: every residual block of both networks has its own gate: 3n gated
\* blocks in the CIFAR network, 8 / 16 / 16 / 33 / 50 in the ImageNet
\* networks, no two blocks sharing a gate.
\* Violated: the ImageNet builder never calls residual(), so it creates no
\* gate at all.
C5_EveryBlockHasOwnGate ==
    bpc = "built" => /\ Len(gateVars) = ClaimedBlocks(bcfg)
                     /\ NoDuplicates(gateVars)

\* C5 restricted to the CIFAR network; the ImageNet network has the claimed
\* number of blocks, none of them gated
CifarEveryBlockHasOwnGate ==
    bpc = "built" =>
        /\ Len(Blocks(bcfg)) = ClaimedBlocks(bcfg)
        /\ bcfg.script = "cifar" =>
              /\ Len(gateVars) = 3 * bcfg.n
              /\ NoDuplicates(gateVars)
        /\ bcfg.script = "imagenet" => gateVars = <<>>

\* C7: every accepted configuration attaches exactly one side head, on a
\* block of the middle stage (res2.k / group2 block SIDE_POSITION, with the
\* block index inside the stage).
\* Violated: -n 1 and --depth 18 attach none.
C7_OneSideHeadMidNetwork ==
    bpc = "built" =>
        /\ Len(sideHeads) = 1
        /\ sideHeads[1][2] = 2
        /\ sideHeads[1][3] >= 0
        /\ sideHeads[1][3] < (IF bcfg.script = "cifar" THEN bcfg.n
                              ELSE cfg(bcfg.depth).defs[3])

\* what the builders do attach: never more than one head, and only on the
\* middle stage
AtMostOneSideHead ==
    /\ Len(sideHeads) <= 1
    /\ \A i \in 1..Len(sideHeads) : sideHeads[i][2] = 2

\* the heads the stepwise builder attached are the ones AttachedHeads names
BuilderAttachesAttachedHeads ==
    bpc = "built" =>
        /\ Len(sideHeads) = Len(AttachedHeads(bcfg))
        /\ \A i \in 1..Len(sideHeads) :
              <<sideHeads[i][1], sideHeads[i][2], FormatInt(sideHeads[i][3])>>
                  = AttachedHeads(bcfg)[i]

--------------------------------------------------------------------------
(* Properties of __main__ (SpecMain) *)

\* the threshold C6 expects: the -e value when given, else the default
ClaimedEpsilon(a) ==
    IF a.epsilon # <<>> THEN ParseFloat(a.epsilon[1]) ELSE DefaultEpsilon(a.script)

\* C6: the threshold the graph is built with is the value passed with
\* -e / --epsilon when the flag is given and the script's default otherwise.
\* Violated: the ImageNet script never reads args.epsilon.
C6_EpsilonFromFlag == model.built => model.epsilon = ClaimedEpsilon(args)

\* C6 restricted to the CIFAR script
CifarEpsilonFromFlag ==
    (args.script = "cifar" /\ model.built) => model.epsilon = ClaimedEpsilon(args)

C9_DataFormatFromFlag ==
    (args.script = "imagenet" /\ model.built) => model.data_format = args.data_format

\* C9 restricted to training
TrainDataFormatFromFlag ==
    (args.script = "imagenet" /\ model.built /\ ~args.eval) =>
        model.data_format = args.data_format

\* C11: the side head whose validation error the inference callback monitors
\* is the side head the graph builder attached: same stage, same block index.
\* Violated: the ImageNet callback is named after the global SIDE_POSITION,
\* which is still None; CIFAR -n 1 monitors res2.0 and attaches no head.
C11_MonitoredHeadIsAttachedHead ==
    (model.built /\ env.monitored # <<>>) => model.side_heads = env.monitored

\* C11 restricted to the CIFAR script under Python 2 with n >= 2
CifarMonitoredHeadIsAttachedHead ==
    (args.script = "cifar" /\ args.py = 2 /\ args.n >= 2 /\ model.built) =>
        model.side_heads = env.monitored

--------------------------------------------------------------------------
(* Properties of the whole CIFAR network (SpecNet) *)

ZeroGates == {j \in 1..Len(gates) : gates[j] = 0}

\* C12: after any sequence of runs, discarded_cnt equals the number of
\* residual blocks whose gate is 0, so 0 <= discarded_cnt <= 3n, and
\* discarded_ratio = discarded_cnt / (3n + 2) is strictly below 1.
C12_DiscardedCntCountsZeroGates ==
    npc = "done" =>
        /\ summary.discarded_cnt = Cardinality(ZeroGates)
        /\ summary.discarded_cnt >= 0
        /\ summary.discarded_cnt <= 3 * ncfg.n
        /\ summary.discarded_ratio = <<summary.discarded_cnt, 3 * ncfg.n + 2>>
        /\ summary.discarded_ratio[1] < summary.discarded_ratio[2]

\* C12 witness: a training run after which every block is discarded
C12_Witness ==
    /\ npc = "done"
    /\ summary.mode = "train"
    /\ Cardinality(ZeroGates) = 3 * ncfg.n
    /\ summary.discarded_cnt = 3 * ncfg.n

====
